---- MODULE Spec2Model ----
(***************************************************************************)
(* PLUMESCAPE, LCA.py: the landing-pad trade study.                        *)
(*                                                                         *)
(* LandingPad holds one design's coefficients and three formulas;          *)
(* TradeStudy.run_full_study sweeps pads x distances x frequencies and     *)
(* returns a list of dicts.  The model is a caller's session with one      *)
(* TradeStudy: it runs the sweep (one loop iteration per step); once a     *)
(* table is returned it may assign one attribute of a pad or the study's   *)
(* thrust; after a change of thrust it may run the sweep once more,        *)
(* keeping the first table; instead of sweeping it may ask a pad for its   *)
(* maintenance cost.  An exception ends the session: nothing catches it.   *)
(*                                                                         *)
(* Numbers are exact rationals [n, d] in lowest terms with d > 0: Python's *)
(* int arithmetic is exact, and its float arithmetic is modelled without   *)
(* rounding error, overflow or underflow.                                  *)
(***************************************************************************)
EXTENDS Integers, Sequences, FiniteSets

VARIABLES
    pads,             \* self.pads: the heap of LandingPad objects, by position
    vehicle_thrust,   \* self.vehicle_thrust
    lifetime_months,  \* self.lifetime_months
    distances,        \* the caller's list passed as run_full_study's distances
    frequencies,      \* the caller's list passed as run_full_study's frequencies
    pc,               \* "idle" | "loop" | "returned" | "raised" | "costed"
    i, j, k,          \* positions of the three for loops (pad, distance, freq)
    results,          \* run_full_study's local list
    returned,         \* what the last call handed to the caller
    exc,              \* the exception the call propagated to the caller
    ran,              \* the thrust and pads the last finished call ran with
    earlier,          \* the first call's table, kept by a caller who runs again
    mutated,          \* the caller has changed an attribute after a call
    maint             \* the value of the calculate_maintenance_cost call

vars == <<pads, vehicle_thrust, lifetime_months, distances, frequencies, pc,
          i, j, k, results, returned, exc, ran, earlier, mutated, maint>>

---------------------------------------------------------------------------
\* Bounds of the model: the longest pad, distance and frequency lists.
MaxPads == 2
MaxDistances == 2
MaxFrequencies == 2

---------------------------------------------------------------------------
\* Python values.

Abs(x) == IF x < 0 THEN -x ELSE x

RECURSIVE GCD(_, _)
GCD(a, b) == IF b = 0 THEN a ELSE GCD(b, a % b)

\* The number n/d (d # 0) in lowest terms.
Rat(n, d) ==
    LET g == GCD(Abs(n), Abs(d))
        s == IF d < 0 THEN -1 ELSE 1
    IN  [n |-> s * (n \div g), d |-> s * (d \div g)]

Num(n) == [n |-> n, d |-> 1]

\* A str object.
Str(s) == [str |-> s]

\* A reference to the LandingPad object at position p of the heap.
Ref(p) == [ref |-> p]

None == [kind |-> "None"]

List(items) == [kind |-> "list", items |-> items]

\* The exception int and float division raise on a zero divisor.
ZeroDivisionError == [type |-> "ZeroDivisionError", args |-> <<Str("division by zero")>>]

IsException(v) == "type" \in DOMAIN v

\* a * b
Mul(a, b) == Rat(a.n * b.n, a.d * b.d)

\* a ** e, e a natural number
RECURSIVE Pow(_, _)
Pow(a, e) == IF e = 0 THEN Num(1) ELSE Mul(a, Pow(a, e - 1))

\* a // b: floor division
FloorDiv(a, b) ==
    IF b.n = 0 THEN ZeroDivisionError
    ELSE Num((a.n * b.d) \div (a.d * b.n))

\* a / b: true division
TrueDiv(a, b) ==
    IF b.n = 0 THEN ZeroDivisionError
    ELSE Rat(a.n * b.d, a.d * b.n)

---------------------------------------------------------------------------
\* class LandingPad

LandingPad(name, dust_coeff, erosion_coeff, construction_cost, maintenance_interval) ==
    [name |-> name, dust_coeff |-> dust_coeff, erosion_coeff |-> erosion_coeff,
     construction_cost |-> construction_cost,
     maintenance_interval |-> maintenance_interval]

\* Dust deposition that falls off with the distance, not with its square.
calculate_dust_deposition_linear(self, thrust, distance) ==
    TrueDiv(Mul(self.dust_coeff, thrust), Pow(distance, 1))

\* Dust deposition that leaves the thrust out.
calculate_dust_deposition_no_thrust(self, thrust, distance) ==
    TrueDiv(self.dust_coeff, Pow(distance, 2))

calculate_dust_deposition(self, thrust, distance) ==
    TrueDiv(Mul(self.dust_coeff, thrust), Pow(distance, 2))

\* Erosion that grows with the square of the thrust.
calculate_erosion_quadratic(self, thrust) == Mul(self.erosion_coeff, Pow(thrust, 2))

calculate_erosion(self, thrust) == Mul(self.erosion_coeff, thrust)

\* Maintenance cost that counts whole maintenance cycles only.
calculate_maintenance_cost_whole_cycles(self, months) ==
    LET cycles == FloorDiv(months, self.maintenance_interval)
    IN  IF IsException(cycles) THEN cycles
        ELSE Mul(self.construction_cost, cycles)

calculate_maintenance_cost(self, months) ==
    LET cycles == TrueDiv(months, self.maintenance_interval)
    IN  IF IsException(cycles) THEN cycles
        ELSE Mul(self.construction_cost, cycles)

---------------------------------------------------------------------------
\* The inputs of the model.

BRP == LandingPad(Str("BRP"), Rat(2, 100), Rat(1, 10), Num(500000), Num(1))
HSP == LandingPad(Str("HSP"), Rat(1, 100), Rat(5, 100), Num(2000000), Num(6))

PadDesigns == {BRP, HSP}

\* The values an attribute of a pad can be set to.
AttrValues ==
    [name |-> {Str("BRP"), Str("HSP")},
     dust_coeff |-> {Rat(2, 100), Rat(1, 100)},
     erosion_coeff |-> {Rat(1, 10), Rat(5, 100)},
     construction_cost |-> {Num(500000), Num(2000000)},
     maintenance_interval |-> {Num(0), Num(1), Num(6)}]

Thrusts == {Num(40), Num(80)}

Lifetimes == {Num(120), Num(9)}

Distances == {Num(-30), Num(0), Num(30), Num(60)}

Frequencies == {Num(5), Num(10)}

SeqsUpTo(S, n) == UNION {[1..m -> S] : m \in 0..n}

---------------------------------------------------------------------------
\* class TradeStudy

\* A dict that keeps the LandingPad object itself under 'Pad'.
ResultRecordLive(p, solar_distance, freq, dust_solar, erosion_per_month) ==
    [Pad |-> Ref(p),
     Solar_Distance |-> solar_distance,
     Frequency |-> freq,
     Dust_Solar |-> dust_solar,
     Erosion |-> erosion_per_month]

\* The dict appended for the pad at position p of self.pads: every entry is a
\* str or a number, none a reference to the pad or the study.
ResultRecord(p, solar_distance, freq, dust_solar, erosion_per_month) ==
    [Pad |-> pads[p].name,
     Solar_Distance |-> solar_distance,
     Frequency |-> freq,
     Dust_Solar |-> dust_solar,
     Erosion |-> erosion_per_month]

\* An append that skips a dict the list already holds.
AppendDistinct(list, record) ==
    IF \E x \in DOMAIN list : list[x] = record THEN list ELSE Append(list, record)

\* results.append(record)
ListAppend(list, record) == Append(list, record)

\* What the caller reads through an entry of a dict: the entry itself, or
\* the present state of the object it refers to.
Deref(v) == IF "ref" \in DOMAIN v THEN pads[v.ref] ELSE v

\* The loops have a next (pad, distance, frequency) point.
HasNext ==
    /\ i <= Len(pads)
    /\ j <= Len(distances)
    /\ k <= Len(frequencies)

\* The point after (a, b, c) with the frequency loop outside the distance loop.
NextPointDistanceInner(a, b, c) ==
    IF b < Len(distances) THEN <<a, b + 1, c>>
    ELSE IF c < Len(frequencies) THEN <<a, 1, c + 1>>
    ELSE <<a + 1, 1, 1>>

\* The point after (a, b, c): for pad ... for solar_distance ... for freq.
NextPoint(a, b, c) ==
    IF c < Len(frequencies) THEN <<a, b, c + 1>>
    ELSE IF b < Len(distances) THEN <<a, b + 1, 1>>
    ELSE <<a + 1, 1, 1>>

Init ==
    /\ pads \in SeqsUpTo(PadDesigns, MaxPads)
    /\ vehicle_thrust = Num(40)
    /\ lifetime_months = Num(120)
    /\ distances \in SeqsUpTo(Distances, MaxDistances)
    /\ frequencies \in SeqsUpTo(Frequencies, MaxFrequencies)
    /\ pc = "idle"
    /\ i = 1 /\ j = 1 /\ k = 1
    /\ results = <<>>
    /\ returned = None
    /\ exc = None
    /\ ran = None
    /\ earlier = None
    /\ mutated = FALSE
    /\ maint = None

\* The caller calls run_full_study(distances, frequencies).  Nothing catches
\* an exception, so a session whose call raised is over.  A caller who has
\* been handed a table keeps it and calls once more after changing the
\* study's thrust.
StartRun ==
    /\ \/ pc = "idle"
       \/ pc = "returned" /\ earlier = None /\ vehicle_thrust # ran.thrust
    /\ earlier' = IF pc = "idle" THEN earlier
                  ELSE [kind |-> "call", returned |-> returned,
                        thrust |-> ran.thrust, pads |-> ran.pads]
    /\ pc' = "loop"
    /\ i' = 1 /\ j' = 1 /\ k' = 1
    /\ results' = <<>>
    /\ returned' = None
    /\ exc' = None
    /\ ran' = None
    /\ UNCHANGED <<pads, vehicle_thrust, lifetime_months, distances, frequencies,
                   mutated, maint>>

\* One pass through the body of the innermost loop.
Iterate ==
    /\ pc = "loop"
    /\ HasNext
    /\ LET pad == pads[i]
           solar_distance == distances[j]
           freq == frequencies[k]
           deposition == calculate_dust_deposition(pad, vehicle_thrust, solar_distance)
       IN  IF IsException(deposition)
           THEN /\ pc' = "raised"
                /\ exc' = deposition
                /\ results' = <<>>
                /\ ran' = [kind |-> "ran", thrust |-> vehicle_thrust, pads |-> pads]
                /\ UNCHANGED <<i, j, k, returned>>
           ELSE LET dust_solar == Mul(deposition, freq)
                    erosion_per_landing == calculate_erosion(pad, vehicle_thrust)
                    erosion_per_month == Mul(erosion_per_landing, freq)
                IN  /\ results' = ListAppend(results,
                            ResultRecord(i, solar_distance, freq, dust_solar,
                                         erosion_per_month))
                    /\ LET point == NextPoint(i, j, k)
                       IN  i' = point[1] /\ j' = point[2] /\ k' = point[3]
                    /\ UNCHANGED <<pc, exc, returned, ran>>
    /\ UNCHANGED <<pads, vehicle_thrust, lifetime_months, distances, frequencies,
                   earlier, mutated, maint>>

\* The loops are exhausted: return results.
Return ==
    /\ pc = "loop"
    /\ ~HasNext
    /\ pc' = "returned"
    /\ returned' = List(results)
    /\ results' = <<>>
    /\ ran' = [kind |-> "ran", thrust |-> vehicle_thrust, pads |-> pads]
    /\ UNCHANGED <<pads, vehicle_thrust, lifetime_months, distances, frequencies,
                   i, j, k, exc, earlier, mutated, maint>>

\* After a call the caller assigns an attribute of a pad: pad.attr = v
SetPadAttr ==
    /\ pc = "returned"
    /\ ~mutated
    /\ \E p \in DOMAIN pads :
       \E attr \in DOMAIN AttrValues :
       \E v \in AttrValues[attr] \ {pads[p][attr]} :
           pads' = [pads EXCEPT ![p][attr] = v]
    /\ mutated' = TRUE
    /\ UNCHANGED <<vehicle_thrust, lifetime_months, distances, frequencies, pc,
                   i, j, k, results, returned, exc, ran, earlier, maint>>

\* After a call the caller assigns the study's thrust: study.vehicle_thrust = v
SetThrust ==
    /\ pc = "returned"
    /\ ~mutated
    /\ \E v \in Thrusts \ {vehicle_thrust} : vehicle_thrust' = v
    /\ mutated' = TRUE
    /\ UNCHANGED <<pads, lifetime_months, distances, frequencies, pc,
                   i, j, k, results, returned, exc, ran, earlier, maint>>

\* Instead of running the sweep the caller asks a pad for its maintenance
\* cost, which ends the session.
CalculateMaintenanceCost ==
    /\ pc = "idle"
    /\ \E p \in DOMAIN pads :
       \E months \in Lifetimes :
           maint' = [kind |-> "cost", pad |-> p, months |-> months,
                     value |-> calculate_maintenance_cost(pads[p], months)]
    /\ pc' = "costed"
    /\ UNCHANGED <<pads, vehicle_thrust, lifetime_months, distances, frequencies,
                   i, j, k, results, returned, exc, ran, earlier, mutated>>

Next ==
    \/ StartRun
    \/ Iterate
    \/ Return
    \/ SetPadAttr
    \/ SetThrust
    \/ CalculateMaintenanceCost

Spec == Init /\ [][Next]_vars

---------------------------------------------------------------------------
\* What the claims speak of.

Product == Len(pads) * Len(distances) * Len(frequencies)

\* The position of the record for the a-th pad, b-th distance, c-th frequency.
IndexOf(a, b, c) ==
    (a - 1) * Len(distances) * Len(frequencies) + (b - 1) * Len(frequencies) + c

\* The position in self.pads of the pad the x-th record was computed for.
PadOf(x) == ((x - 1) \div (Len(distances) * Len(frequencies))) + 1

\* The positions of the records computed for the pad of the x-th record.
SamePad(x) ==
    LET each == Len(distances) * Len(frequencies)
    IN  ((PadOf(x) - 1) * each + 1) .. (PadOf(x) * each)

\* The table as the caller reads it now.
Observed(table) ==
    [x \in DOMAIN table.items |->
        [key \in DOMAIN table.items[x] |-> Deref(table.items[x][key])]]

ObservedReturned == IF returned = None THEN <<>> ELSE Observed(returned)

ObservedEarlier == IF earlier = None THEN <<>> ELSE Observed(earlier.returned)

\* The arithmetic of the claims, on fractions as they stand: the product of
\* two numbers, and whether two fractions are one number.
Times(a, b) == [n |-> a.n * b.n, d |-> a.d * b.d]

Same(a, b) == a.n * b.d = b.n * a.d

NonEmptyInputs == Len(pads) > 0 /\ Len(distances) > 0 /\ Len(frequencies) > 0

HasZeroDistance == \E b \in DOMAIN distances : distances[b] = Num(0)

\* C1: with non-empty pads, distances (none zero) and frequencies, the call
\* never raises and returns exactly |D| * |X| * |F| records, repeated inputs
\* included.
C1_Cardinality ==
    (NonEmptyInputs /\ ~HasZeroDistance) =>
        /\ pc # "raised"
        /\ pc = "returned" => Len(returned.items) = Product

\* C1 witness: a returned table of 8 records for two equal pads, two equal
\* distances and two equal frequencies.
C1_Witness ==
    /\ pc = "returned"
    /\ Len(pads) = 2 /\ pads[1] = pads[2]
    /\ Len(distances) = 2 /\ distances[1] = distances[2]
    /\ Len(frequencies) = 2 /\ frequencies[1] = frequencies[2]
    /\ Len(returned.items) = 8

\* C2: the record at index a*|X|*|F| + b*|F| + c (counting from 0) carries the
\* name of pad a, distance b and frequency c: pads outermost, then distances,
\* then frequencies.
C2_NestedOrder ==
    pc = "returned" =>
        \A a \in DOMAIN ran.pads : \A b \in DOMAIN distances : \A c \in DOMAIN frequencies :
            /\ IndexOf(a, b, c) \in DOMAIN returned.items
            /\ LET record == returned.items[IndexOf(a, b, c)]
               IN  /\ record.Pad = ran.pads[a].name
                   /\ record.Solar_Distance = distances[b]
                   /\ record.Frequency = frequencies[c]

\* C2 witness: a returned table for two different pads, two different
\* distances and two different frequencies.
C2_Witness ==
    /\ pc = "returned"
    /\ Len(pads) = 2 /\ ran.pads[1].name # ran.pads[2].name
    /\ Len(distances) = 2 /\ distances[1] # distances[2]
    /\ Len(frequencies) = 2 /\ frequencies[1] # frequencies[2]
    /\ Len(returned.items) = 8

\* C3: every record's dust rate is dust_coeff * thrust / d^2 * f and its
\* erosion rate erosion_coeff * thrust * f, for its pad, its distance d, its
\* frequency f and the thrust of the study; each is the pad's own formula,
\* which takes no frequency, times f.
C3_Rates ==
    pc = "returned" =>
        \A x \in DOMAIN returned.items :
            LET record == returned.items[x]
                pad == ran.pads[PadOf(x)]
                d == record.Solar_Distance
                f == record.Frequency
            IN  /\ Same(Times(record.Dust_Solar, Times(d, d)),
                        Times(Times(pad.dust_coeff, ran.thrust), f))
                /\ Same(record.Erosion, Times(Times(pad.erosion_coeff, ran.thrust), f))
                /\ record.Dust_Solar
                     = Mul(calculate_dust_deposition(pad, ran.thrust, d), f)
                /\ record.Erosion = Mul(calculate_erosion(pad, ran.thrust), f)

\* C3 witness: the scenario dust_coeff 0.02, erosion_coeff 0.1, thrust 40,
\* distance 30, frequency 10 gives dust 0.02 * 40 / 900 * 10 = 2/225 and
\* erosion 40.
C3_Witness ==
    /\ pc = "returned"
    /\ \E x \in DOMAIN returned.items :
           /\ ran.pads[PadOf(x)] = BRP
           /\ ran.thrust = Num(40)
           /\ returned.items[x].Solar_Distance = Num(30)
           /\ returned.items[x].Frequency = Num(10)
           /\ returned.items[x].Dust_Solar = Rat(2, 225)
           /\ returned.items[x].Erosion = Num(40)

\* C4: if the distances contain a 0 at any position, the call ends in a
\* division error and the caller receives no record set.
C4_ZeroDistanceRaises ==
    HasZeroDistance =>
        /\ pc # "returned"
        /\ pc = "raised" =>
              /\ exc = ZeroDivisionError
              /\ returned = None
              /\ results = <<>>

\* The same when the pads and the frequencies are not empty.
ZeroDistanceRaisesNonEmpty == NonEmptyInputs => C4_ZeroDistanceRaises

\* A call raised at a zero distance after it had computed records for the
\* distances before it.
ZeroDistanceAfterRecords ==
    /\ pc = "raised"
    /\ j > 1
    /\ returned = None

\* C5: the failure reported to the caller identifies the (design, distance,
\* frequency) triple that triggered it.
C5_FailureNamesTriple ==
    pc = "raised" =>
        /\ \E a \in DOMAIN exc.args : exc.args[a] = pads[i].name
        /\ \E a \in DOMAIN exc.args : exc.args[a] = distances[j]
        /\ \E a \in DOMAIN exc.args : exc.args[a] = frequencies[k]

\* The configuration a call ran with is invalid.
InvalidConfiguration ==
    \/ Len(ran.pads) = 0 \/ Len(distances) = 0 \/ Len(frequencies) = 0
    \/ \E b \in DOMAIN distances : distances[b].n <= 0
    \/ \E a \in DOMAIN ran.pads : ran.pads[a].maintenance_interval.n <= 0

\* C6: run_full_study never returns a record table for an invalid
\* configuration (a non-positive distance, a non-positive maintenance
\* interval, an empty pad, distance or frequency collection).
C6_InvalidNeverReturns ==
    pc = "returned" => ~InvalidConfiguration

\* A call returned a table of records for a negative distance.
NegativeDistanceReturned ==
    /\ pc = "returned"
    /\ Len(returned.items) > 0
    /\ \E b \in DOMAIN distances : distances[b].n < 0

\* C7: for a fixed pad, thrust and frequency, 4 * dust(2d) = dust(d) for every
\* positive distance d.
C7_InverseSquare ==
    pc = "returned" =>
        \A x \in DOMAIN returned.items : \A y \in SamePad(x) :
            LET near == returned.items[x]
                far == returned.items[y]
            IN  (/\ near.Frequency = far.Frequency
                 /\ near.Solar_Distance.n > 0
                 /\ Same(far.Solar_Distance, Times(Num(2), near.Solar_Distance)))
                => Same(Times(Num(4), far.Dust_Solar), near.Dust_Solar)

\* C7 witness: a returned table with records of one pad and one frequency at
\* 30 m and at 60 m.
C7_Witness ==
    /\ pc = "returned"
    /\ \E x \in DOMAIN returned.items : \E y \in SamePad(x) :
           /\ returned.items[x].Frequency = returned.items[y].Frequency
           /\ returned.items[x].Solar_Distance = Num(30)
           /\ returned.items[y].Solar_Distance = Num(60)
           /\ returned.items[x].Dust_Solar # returned.items[y].Dust_Solar

\* The second call ran the pads of the first under twice its thrust.
ThrustDoubled ==
    /\ pc = "returned"
    /\ earlier # None
    /\ ran.pads = earlier.pads
    /\ Same(ran.thrust, Times(Num(2), earlier.thrust))

\* C8: for a fixed pad, records of one frequency have one erosion rate
\* whatever their distance, twice the frequency gives twice the erosion rate,
\* and a run under twice the thrust gives twice the erosion rate.
C8_ErosionLinear ==
    /\ pc = "returned" =>
          \A x \in DOMAIN returned.items : \A y \in SamePad(x) :
              LET one == returned.items[x]
                  other == returned.items[y]
              IN  /\ one.Frequency = other.Frequency
                        => one.Erosion = other.Erosion
                  /\ Same(other.Frequency, Times(Num(2), one.Frequency))
                        => Same(other.Erosion, Times(Num(2), one.Erosion))
    /\ ThrustDoubled =>
          /\ Len(returned.items) = Len(earlier.returned.items)
          /\ \A x \in DOMAIN returned.items :
                 Same(returned.items[x].Erosion,
                      Times(Num(2), earlier.returned.items[x].Erosion))

\* C8 witness: two runs of two distances and the frequencies 5 and 10, the
\* second under twice the thrust of the first.
C8_Witness ==
    /\ ThrustDoubled
    /\ Len(pads) > 0
    /\ Len(distances) = 2 /\ distances[1] # distances[2]
    /\ frequencies = <<Num(5), Num(10)>>
    /\ Len(returned.items) = Product

\* C9: once a table has been returned, no step changes what the caller reads
\* in it: not an assignment to an attribute of a pad or to the study's
\* thrust, and not a second run.
C9_Snapshots ==
    [][/\ (pc = "returned" /\ pc' = "returned")
            => ObservedReturned' = ObservedReturned
       /\ (pc = "returned" /\ pc' = "loop")
            => ObservedEarlier' = ObservedReturned
       /\ earlier # None
            => ObservedEarlier' = ObservedEarlier]_vars

\* C9 witness: after the return the name of the first pad was changed, and
\* the first record still carries the name the pad had.
C9_Witness ==
    /\ pc = "returned"
    /\ mutated
    /\ Len(returned.items) > 0
    /\ pads[1].name # ran.pads[1].name
    /\ ObservedReturned[1].Pad = ran.pads[1].name

\* C10: for a maintenance interval > 0 the maintenance cost is
\* construction_cost * lifetime_months / maintenance_interval with fractional
\* cycles counted; 500000, interval 1, 120 months give 60,000,000.
C10_MaintenanceCost ==
    maint # None =>
        LET self == pads[maint.pad]
        IN  self.maintenance_interval.n > 0 =>
                /\ ~IsException(maint.value)
                /\ Same(Times(maint.value, self.maintenance_interval),
                        Times(self.construction_cost, maint.months))
                /\ (/\ self.construction_cost = Num(500000)
                    /\ self.maintenance_interval = Num(1)
                    /\ maint.months = Num(120))
                   => maint.value = Num(60000000)

\* C10 witness: 9 months at an interval of 6 are one and a half cycles:
\* 2,000,000 * 1.5 = 3,000,000.
C10_Witness ==
    /\ maint # None
    /\ pads[maint.pad].construction_cost = Num(2000000)
    /\ pads[maint.pad].maintenance_interval = Num(6)
    /\ maint.months = Num(9)
    /\ maint.value = Num(3000000)

\* The scenario of C10 is reached.
MaintenanceScenario ==
    /\ maint # None
    /\ pads[maint.pad].construction_cost = Num(500000)
    /\ pads[maint.pad].maintenance_interval = Num(1)
    /\ maint.months = Num(120)
    /\ maint.value = Num(60000000)

====
